---------------------------- MODULE Spec2Model ----------------------------
(***************************************************************************)
(* Model of the transaural cross-talk-cancellation program:                *)
(*   src-tauri/src/filter.rs      PrimaryFilter, BiquadFilter              *)
(*   src-tauri/src/ctc_engine.rs  CtcEngine (new, get_interpolated,        *)
(*                                process), calc_allpass_coeffs            *)
(*   src-tauri/src/lib.rs         set_audio_devices, abort_audio_routing,  *)
(*                                start_thru, calc_delay_frames,           *)
(*                                calc_speed_of_sound                      *)
(*                                                                         *)
(* Numbers.  An f64 is modelled as a fixed-point number: the integer n     *)
(* stands for n / Unit.  Every product and quotient is rounded to the      *)
(* nearest representable value, as floating point rounds.  Magnitudes      *)
(* above FMax overflow to the infinities, and NaN, +inf, -inf follow the   *)
(* IEEE-754 rules of the operations the code uses.                         *)
(***************************************************************************)
EXTENDS Integers, Sequences, FiniteSets, TLC

\* ------------------------------------------------------------------ bounds
Unit == 64               \* resolution of the number model: 1.0 is Unit
FMax == 16777216         \* largest finite magnitude of the number model
MaxCalls == 516          \* CtcEngine::process calls in one run of Spec

\* ---------------------------------------------------------- program constants
RB_LEN == 512            \* length of the four ring buffers
RB_MASK == 511           \* the mask of "& 511" in get_interpolated

\* ------------------------------------------------------------ f64 arithmetic
PInf == FMax + 1
NInf == -(FMax + 1)
NaN == FMax + 2

IsNaN(x) == x = NaN
IsInf(x) == x = PInf \/ x = NInf
IsFinite(x) == ~IsNaN(x) /\ ~IsInf(x)

Abs(n) == IF n < 0 THEN -n ELSE n
Sgn(n) == IF n < 0 THEN -1 ELSE IF n > 0 THEN 1 ELSE 0

\* the f64 nearest to the exact value n: overflow gives an infinity
Norm(n) == IF n > FMax THEN PInf ELSE IF n < -FMax THEN NInf ELSE n

\* n / d rounded to nearest, halves away from zero (d > 0)
RoundDiv(n, d) ==
    IF n >= 0 THEN (n + d \div 2) \div d ELSE -(((-n) + d \div 2) \div d)

FNeg(a) == IF IsNaN(a) THEN NaN ELSE -a

FAdd(a, b) ==
    IF IsNaN(a) \/ IsNaN(b) THEN NaN
    ELSE IF IsInf(a) THEN (IF IsInf(b) /\ a # b THEN NaN ELSE a)
    ELSE IF IsInf(b) THEN b
    ELSE Norm(a + b)

FSub(a, b) == FAdd(a, FNeg(b))

FMul(a, b) ==
    IF IsNaN(a) \/ IsNaN(b) THEN NaN
    ELSE IF IsInf(a) \/ IsInf(b)
         THEN (IF a = 0 \/ b = 0 THEN NaN
               ELSE IF Sgn(a) * Sgn(b) > 0 THEN PInf ELSE NInf)
    ELSE IF a = 0 \/ b = 0 THEN 0
    ELSE IF Abs(a) >= ((FMax + 1) * Unit + Abs(b) - 1) \div Abs(b)
         THEN (IF Sgn(a) * Sgn(b) > 0 THEN PInf ELSE NInf)
    ELSE Norm(RoundDiv(a * b, Unit))

FDiv(a, b) ==
    IF IsNaN(a) \/ IsNaN(b) THEN NaN
    ELSE IF IsInf(a)
         THEN (IF IsInf(b) THEN NaN
               ELSE IF Sgn(a) * (IF b < 0 THEN -1 ELSE 1) > 0 THEN PInf ELSE NInf)
    ELSE IF IsInf(b) THEN 0
    ELSE IF b = 0
         THEN (IF a = 0 THEN NaN ELSE IF a > 0 THEN PInf ELSE NInf)
    ELSE LET q == RoundDiv(Abs(a) * Unit, Abs(b))
         IN  Norm(Sgn(a) * Sgn(b) * q)

\* f64::floor
FFloor(a) == IF IsFinite(a) THEN (a \div Unit) * Unit ELSE a

\* f64::abs
FAbs(a) == IF IsNaN(a) THEN NaN ELSE Abs(a)

\* f64::max: a NaN operand is ignored
FMaxOf(a, b) ==
    IF IsNaN(a) THEN b ELSE IF IsNaN(b) THEN a ELSE IF a >= b THEN a ELSE b

\* a > b of f64: false when an operand is NaN
FGt(a, b) == ~IsNaN(a) /\ ~IsNaN(b) /\ a > b

\* f64::clamp(lo, hi): NaN stays NaN
FClamp(a, lo, hi) ==
    IF IsNaN(a) THEN NaN ELSE IF a < lo THEN lo ELSE IF a > hi THEN hi ELSE a

\* largest r with r * r <= n (n >= 0)
RECURSIVE ISqrtFrom(_, _)
ISqrtFrom(n, r) == IF (r + 1) * (r + 1) > n THEN r ELSE ISqrtFrom(n, r + 1)
RECURSIVE ISqrt(_)
ISqrt(n) ==
    IF n < 4 THEN ISqrtFrom(n, 0)
    ELSE LET h == 2 * ISqrt(n \div 4) IN IF (h + 1) * (h + 1) > n THEN h ELSE h + 1

\* f64::sqrt: NaN below zero
FSqrt(a) ==
    IF IsNaN(a) \/ a = NInf THEN NaN
    ELSE IF a = PInf THEN PInf
    ELSE IF a < 0 THEN NaN
    ELSE ISqrt(a * Unit)

\* the f64 of a whole number, and of n / 1000
Whole(n) == n * Unit
Dec3(n) == RoundDiv(n * Unit, 1000)

\* f64::cos and f64::sin, by their power series (arguments in [0, pi])
FCos(x) ==
    IF ~IsFinite(x) THEN NaN
    ELSE LET x2 == FMul(x, x)
             t4 == FSub(Unit, FDiv(x2, Whole(90)))
             t3 == FSub(Unit, FMul(FDiv(x2, Whole(56)), t4))
             t2 == FSub(Unit, FMul(FDiv(x2, Whole(30)), t3))
             t1 == FSub(Unit, FMul(FDiv(x2, Whole(12)), t2))
         IN  FSub(Unit, FMul(FDiv(x2, Whole(2)), t1))

FSin(x) ==
    IF ~IsFinite(x) THEN NaN
    ELSE LET x2 == FMul(x, x)
             t4 == FSub(Unit, FDiv(x2, Whole(72)))
             t3 == FSub(Unit, FMul(FDiv(x2, Whole(42)), t4))
             t2 == FSub(Unit, FMul(FDiv(x2, Whole(20)), t3))
             t1 == FSub(Unit, FMul(FDiv(x2, Whole(6)), t2))
         IN  FMul(x, t1)

\* 10.0f64.powf(e) for the exponents e = h / 2, h a whole number
RECURSIVE Pow10Whole(_)
Pow10Whole(n) == IF n = 0 THEN Unit ELSE FMul(Whole(10), Pow10Whole(n - 1))
Pow10Half(h) ==
    LET p == IF h % 2 = 0 THEN Pow10Whole(Abs(h) \div 2)
             ELSE FSqrt(Pow10Whole(Abs(h)))
    IN  IF h >= 0 THEN p ELSE FDiv(Unit, p)

PI == Dec3(3142)

\* ------------------------------------------------------------------ filter.rs
\* PrimaryFilter::all_pass
all_pass(alpha) ==
    [filter_type |-> "AllPass", alpha |-> alpha, prev_in |-> 0, prev_out |-> 0]

\* <PrimaryFilter as Processable>::process: the filter after the call and
\* the value returned
PF_process(f, input) ==
    LET out64 ==
            CASE f.filter_type = "AllPass" ->
                     FSub(FAdd(FMul(f.alpha, input), f.prev_in),
                          FMul(f.alpha, f.prev_out))
              [] f.filter_type = "HighPass" ->
                     FMul(f.alpha, FSub(FAdd(f.prev_out, input), f.prev_in))
              [] f.filter_type = "LowPass" ->
                     FAdd(f.prev_out, FMul(f.alpha, FSub(input, f.prev_out)))
    IN  [f |-> [f EXCEPT !.prev_in = input, !.prev_out = out64], out |-> out64]

\* BiquadFilter::new
BQ_new(b0, b1, b2, a0, a1, a2) ==
    [b0 |-> FDiv(b0, a0), b1 |-> FDiv(b1, a0), b2 |-> FDiv(b2, a0),
     a1 |-> FDiv(a1, a0), a2 |-> FDiv(a2, a0), z1 |-> 0, z2 |-> 0]

\* BiquadFilter::low_pass
BQ_low_pass(sample_rate, cutoff) ==
    LET q == Dec3(707)
        omega == FDiv(FMul(FMul(Whole(2), PI), cutoff), sample_rate)
        cos_w == FCos(omega)
        alpha == FDiv(FSin(omega), FMul(Whole(2), q))
    IN  BQ_new(FDiv(FSub(Unit, cos_w), Whole(2)),
               FSub(Unit, cos_w),
               FDiv(FSub(Unit, cos_w), Whole(2)),
               FAdd(Unit, alpha),
               FMul(Whole(-2), cos_w),
               FSub(Unit, alpha))

\* BiquadFilter::high_pass
BQ_high_pass(sample_rate, cutoff) ==
    LET q == Dec3(707)
        omega == FDiv(FMul(FMul(Whole(2), PI), cutoff), sample_rate)
        cos_w == FCos(omega)
        alpha == FDiv(FSin(omega), FMul(Whole(2), q))
    IN  BQ_new(FDiv(FAdd(Unit, cos_w), Whole(2)),
               FNeg(FAdd(Unit, cos_w)),
               FDiv(FAdd(Unit, cos_w), Whole(2)),
               FAdd(Unit, alpha),
               FMul(Whole(-2), cos_w),
               FSub(Unit, alpha))

\* BiquadFilter::low_shelf; gain_db is given in units of 20 dB, so that
\* 10^(gain_db / 40) is 10^(gain20 / 2)
BQ_low_shelf(sample_rate, cutoff, gain20) ==
    LET q == Dec3(707)
        a == Pow10Half(gain20)
        omega == FDiv(FMul(FMul(Whole(2), PI), cutoff), sample_rate)
        cos_w == FCos(omega)
        beta == FAdd(FMul(FAdd(a, FDiv(Unit, a)), FSub(FDiv(Unit, q), Unit)),
                     Whole(2))
        alpha == FMul(FDiv(FSin(omega), Whole(2)), FSqrt(FMaxOf(beta, 0)))
        ap1 == FAdd(a, Unit)
        am1 == FSub(a, Unit)
        sq == FMul(FMul(Whole(2), FSqrt(a)), alpha)
    IN  BQ_new(FMul(a, FAdd(FSub(ap1, FMul(am1, cos_w)), sq)),
               FMul(FMul(Whole(2), a), FSub(am1, FMul(ap1, cos_w))),
               FMul(a, FSub(FSub(ap1, FMul(am1, cos_w)), sq)),
               FAdd(FAdd(ap1, FMul(am1, cos_w)), sq),
               FMul(Whole(-2), FAdd(am1, FMul(ap1, cos_w))),
               FSub(FAdd(ap1, FMul(am1, cos_w)), sq))

\* a process without the is_finite test
BQ_process_unguarded(f, input) ==
    LET output == FAdd(FMul(f.b0, input), f.z1)
    IN  [f |-> [f EXCEPT
                  !.z1 = FAdd(FSub(FMul(f.b1, input), FMul(f.a1, output)),
                              f.z2),
                  !.z2 = FSub(FMul(f.b2, input), FMul(f.a2, output))],
         out |-> output]

\* <BiquadFilter as Processable>::process: the filter after the call and
\* the value returned.  f64::EPSILON is below the resolution of the number
\* model: the only finite value under it is 0.
BQ_output(f, input) == FAdd(FMul(f.b0, input), f.z1)

BQ_process(f, input) ==
    LET output == BQ_output(f, input)
    IN  IF IsFinite(output)
        THEN [f |-> [f EXCEPT
                       !.z1 = FAdd(FSub(FMul(f.b1, input), FMul(f.a1, output)),
                                   f.z2),
                       !.z2 = FSub(FMul(f.b2, input), FMul(f.a2, output))],
              out |-> output]
        ELSE [f |-> [f EXCEPT !.z1 = 0, !.z2 = 0], out |-> 0]

\* -------------------------------------------------------------- ctc_engine.rs
\* calc_allpass_coeffs: the coefficients of chain A and of chain B
calc_allpass_coeffs(sample_rate) ==
    LET poles_a == <<Dec3(1252), Dec3(5567), Dec3(22334), Dec3(121182)>>
        poles_b == <<Dec3(471), Dec3(2511), Dec3(9736), Dec3(52321)>>
        calc(p) ==
            LET omega == FDiv(FMul(FMul(FMul(Whole(2), PI), p), Whole(150)),
                              sample_rate)
            IN  FDiv(FSub(Unit, omega), FAdd(Unit, omega))
    IN  [a |-> [i \in 1..4 |-> calc(poles_a[i])],
         b |-> [i \in 1..4 |-> calc(poles_b[i])]]

RingIdx == 0..(RB_LEN - 1)
ZeroRing == [i \in RingIdx |-> 0]

\* CtcEngine::new.  The fields after ct_delay_r are history variables: the
\* number of process calls so far, for each cell of the 90-degree rings the
\* call that wrote it last (0: none), the newest stamp among the cells the
\* last call's cancellation taps read, the locals of the last process call,
\* whether a get_unchecked has read outside its buffer (undefined behaviour:
\* nothing is asserted of the values after it), and whether a checked index
\* has panicked.
CtcEngine_new(sample_rate, ct_delays, main_delays, lp_cutoffs, hp_cutoff, ls_cutoff, ls_gain) ==
    LET coeffs == calc_allpass_coeffs(sample_rate)
    IN  [filter_a_l |-> [i \in 1..4 |-> all_pass(coeffs.a[i])],
         filter_a_r |-> [i \in 1..4 |-> all_pass(coeffs.a[i])],
         filter_b_l |-> [i \in 1..4 |-> all_pass(coeffs.b[i])],
         filter_b_r |-> [i \in 1..4 |-> all_pass(coeffs.b[i])],
         rb_l_0 |-> ZeroRing,
         rb_r_0 |-> ZeroRing,
         rb_idx |-> 0,
         main_delay_l |-> main_delays[1],
         main_delay_r |-> main_delays[2],
         rb_l_90 |-> ZeroRing,
         rb_r_90 |-> ZeroRing,
         low_pass_l |-> BQ_low_pass(sample_rate, lp_cutoffs[1]),
         low_pass_r |-> BQ_low_pass(sample_rate, lp_cutoffs[2]),
         high_pass_l |-> BQ_high_pass(sample_rate, hp_cutoff),
         high_pass_r |-> BQ_high_pass(sample_rate, hp_cutoff),
         low_shelf_l |-> BQ_low_shelf(sample_rate, ls_cutoff, ls_gain),
         low_shelf_r |-> BQ_low_shelf(sample_rate, ls_cutoff, ls_gain),
         ct_delay_l |-> ct_delays[1],
         ct_delay_r |-> ct_delays[2],
         calls |-> 0,
         stamp_l_90 |-> ZeroRing,
         stamp_r_90 |-> ZeroRing,
         tap_stamp |-> 0,
         probe |-> [ct_l_90_delayed |-> 0, ct_r_90_delayed |-> 0,
                    out_l |-> 0, out_r |-> 0,
                    wr_l_0 |-> 0, wr_r_0 |-> 0, wr_l_90 |-> 0, wr_r_90 |-> 0],
         ub |-> FALSE,
         panicked |-> FALSE]

\* 2^n modulo m
RECURSIVE Pow2Mod(_, _)
Pow2Mod(n, m) == IF n = 0 THEN 1 % m ELSE (2 * Pow2Mod(n - 1, m)) % m

\* (x as i64) % m, the remainder that takes the sign of x
CastRemTruncated(x, m) ==
    IF ~IsFinite(x) THEN 0
    ELSE IF x >= 0 THEN (x \div Unit) % m
    ELSE -(((-x) \div Unit) % m)

\* (x as i64).rem_euclid(m) for an f64 x without a fractional part: the cast
\* takes NaN to 0 and saturates the infinities to i64::MAX = 2^63 - 1 and
\* i64::MIN = -2^63
CastRemEuclid(x, m) ==
    IF IsNaN(x) THEN 0
    ELSE IF x = PInf THEN (Pow2Mod(63, m) + m - 1) % m
    ELSE IF x = NInf THEN (m - Pow2Mod(63, m)) % m
    ELSE (x \div Unit) % m

\* a & b of two non-negative integers
RECURSIVE BitAnd(_, _)
BitAnd(a, b) ==
    IF a = 0 \/ b = 0 THEN 0
    ELSE 2 * BitAnd(a \div 2, b \div 2) + (a % 2) * (b % 2)

\* the two cells CtcEngine::get_interpolated reads, and its weight
InterpolationPoint(current_idx, delay) ==
    LET read_pos == FSub(Whole(current_idx), delay)
        pos_floor == FFloor(read_pos)
        idx_a == CastRemEuclid(pos_floor, RB_LEN)
        idx_b == BitAnd(idx_a + 1, RB_MASK)
    IN  [idx_a |-> idx_a, idx_b |-> idx_b, frac |-> FSub(read_pos, pos_floor)]

\* buffer.get_unchecked(i); outside the buffer the read is undefined
\* behaviour, which OutOfBounds reports to the engine's ub flag
get_unchecked(buffer, i) == IF i \in DOMAIN buffer THEN buffer[i] ELSE NaN

OutOfBounds(current_idx, delay) ==
    LET p == InterpolationPoint(current_idx, delay)
    IN  p.idx_a \notin RingIdx \/ p.idx_b \notin RingIdx

\* an interpolation that weighs the two cells the other way round
get_interpolated_swapped(buffer, current_idx, delay) ==
    LET p == InterpolationPoint(current_idx, delay)
        val_a == get_unchecked(buffer, p.idx_a)
        val_b == get_unchecked(buffer, p.idx_b)
    IN  FAdd(val_b, FMul(p.frac, FSub(val_a, val_b)))

\* CtcEngine::get_interpolated
get_interpolated(buffer, current_idx, delay) ==
    LET p == InterpolationPoint(current_idx, delay)
        val_a == get_unchecked(buffer, p.idx_a)
        val_b == get_unchecked(buffer, p.idx_b)
    IN  FAdd(val_a, FMul(p.frac, FSub(val_b, val_a)))

\* iter_mut().fold(x, fold_fn) over a chain of four PrimaryFilters
RECURSIVE Fold(_, _, _)
Fold(chain, x, i) ==
    IF i > Len(chain) THEN [chain |-> chain, out |-> x]
    ELSE LET r == PF_process(chain[i], x)
         IN  Fold([chain EXCEPT ![i] = r.f], r.out, i + 1)

\* CtcEngine::process, statement by statement.  A context c holds the engine
\* and the locals of the call in progress.
\* lines 80-84: the casts and the A chains
AChainStep(e, l, r, attenuation, amp_factors) ==
    LET a_l == Fold(e.filter_a_l, l, 1)
        a_r == Fold(e.filter_a_r, r, 1)
    IN  [e |-> [e EXCEPT !.filter_a_l = a_l.chain, !.filter_a_r = a_r.chain,
                         !.calls = @ + 1],
         l_in |-> l, r_in |-> r,
         attenuation |-> attenuation, amp_factors |-> amp_factors,
         l_0 |-> a_l.out, r_0 |-> a_r.out,
         ct_l_90 |-> 0, ct_r_90 |-> 0, out_l |-> 0, out_r |-> 0]

MaxOf(a, b) == IF a >= b THEN a ELSE b

\* the newest stamp among the cells a tap read at delay reads
TapStamp(stamp, current_idx, delay) ==
    LET p == InterpolationPoint(current_idx, delay)
    IN  MaxOf(get_unchecked(stamp, p.idx_a), get_unchecked(stamp, p.idx_b))

\* lines 86-90: the cancellation taps and their shadow low-pass
TapStep(c) ==
    LET e == c.e
        ct_l_90_delayed == get_interpolated(e.rb_l_90, e.rb_idx, e.ct_delay_l)
        ct_r_90_delayed == get_interpolated(e.rb_r_90, e.rb_idx, e.ct_delay_r)
        lp_l == BQ_process(e.low_pass_l, ct_l_90_delayed)
        lp_r == BQ_process(e.low_pass_r, ct_r_90_delayed)
    IN  [c EXCEPT
           !.e = [e EXCEPT
                    !.low_pass_l = lp_l.f, !.low_pass_r = lp_r.f,
                    !.tap_stamp = MaxOf(TapStamp(e.stamp_l_90, e.rb_idx, e.ct_delay_l),
                                        TapStamp(e.stamp_r_90, e.rb_idx, e.ct_delay_r)),
                    !.ub = @ \/ OutOfBounds(e.rb_idx, e.ct_delay_l)
                             \/ OutOfBounds(e.rb_idx, e.ct_delay_r),
                    !.probe.ct_l_90_delayed = ct_l_90_delayed,
                    !.probe.ct_r_90_delayed = ct_r_90_delayed],
           !.ct_l_90 = lp_l.out, !.ct_r_90 = lp_r.out]

\* lines 92-96 with the cancellation subtracted in full, whatever the
\* attenuation
MainStepFullCancellation(c) ==
    LET e == c.e
        res_l == FSub(FMul(c.l_0, c.amp_factors[1]),
                      FMul(c.ct_r_90, c.amp_factors[3]))
        res_r == FSub(FMul(c.r_0, c.amp_factors[4]),
                      FMul(c.ct_l_90, c.amp_factors[2]))
        ls_l == BQ_process(e.low_shelf_l, res_l)
        ls_r == BQ_process(e.low_shelf_r, res_r)
    IN  [c EXCEPT
           !.e = IF e.rb_idx \notin RingIdx
                 THEN [e EXCEPT !.panicked = TRUE]
                 ELSE [e EXCEPT
                         !.low_shelf_l = ls_l.f, !.low_shelf_r = ls_r.f,
                         !.rb_l_0[e.rb_idx] = ls_l.out,
                         !.rb_r_0[e.rb_idx] = ls_r.out,
                         !.probe.wr_l_0 = ls_l.out,
                         !.probe.wr_r_0 = ls_r.out]]

\* lines 92-96: the cancellation sum, through the low shelf into the main rings
MainStep(c) ==
    LET e == c.e
        res_l == FSub(FMul(c.l_0, c.amp_factors[1]),
                      FMul(FMul(c.ct_r_90, c.attenuation), c.amp_factors[3]))
        res_r == FSub(FMul(c.r_0, c.amp_factors[4]),
                      FMul(FMul(c.ct_l_90, c.attenuation), c.amp_factors[2]))
        ls_l == BQ_process(e.low_shelf_l, res_l)
        ls_r == BQ_process(e.low_shelf_r, res_r)
    IN  [c EXCEPT
           !.e = IF e.rb_idx \notin RingIdx
                 THEN [e EXCEPT !.panicked = TRUE]
                 ELSE [e EXCEPT
                         !.low_shelf_l = ls_l.f, !.low_shelf_r = ls_r.f,
                         !.rb_l_0[e.rb_idx] = ls_l.out,
                         !.rb_r_0[e.rb_idx] = ls_r.out,
                         !.probe.wr_l_0 = ls_l.out,
                         !.probe.wr_r_0 = ls_r.out]]

\* lines 98-99: the main-delay reads.  A panic unwinds: the statements after
\* it do not run.
OutStep(c) ==
    LET e == c.e
        out_l == get_interpolated(e.rb_l_0, e.rb_idx, e.main_delay_l)
        out_r == get_interpolated(e.rb_r_0, e.rb_idx, e.main_delay_r)
    IN  IF e.panicked THEN c
        ELSE [c EXCEPT
                !.e = [e EXCEPT
                         !.ub = @ \/ OutOfBounds(e.rb_idx, e.main_delay_l)
                                  \/ OutOfBounds(e.rb_idx, e.main_delay_r),
                         !.probe.out_l = out_l, !.probe.out_r = out_r],
                !.out_l = out_l, !.out_r = out_r]

\* lines 101-104: the B chains, through the DC blocker into the 90-degree rings
FeedbackStep(c) ==
    LET e == c.e
        b_l == Fold(e.filter_b_l, c.l_in, 1)
        b_r == Fold(e.filter_b_r, c.r_in, 1)
        hp_l == BQ_process(e.high_pass_l, b_l.out)
        hp_r == BQ_process(e.high_pass_r, b_r.out)
    IN  [c EXCEPT
           !.e = IF e.panicked THEN e
                 ELSE IF e.rb_idx \notin RingIdx
                 THEN [e EXCEPT !.panicked = TRUE]
                 ELSE [e EXCEPT
                         !.filter_b_l = b_l.chain, !.filter_b_r = b_r.chain,
                         !.high_pass_l = hp_l.f, !.high_pass_r = hp_r.f,
                         !.rb_l_90[e.rb_idx] = hp_l.out,
                         !.rb_r_90[e.rb_idx] = hp_r.out,
                         !.stamp_l_90[e.rb_idx] = e.calls,
                         !.stamp_r_90[e.rb_idx] = e.calls,
                         !.probe.wr_l_90 = hp_l.out,
                         !.probe.wr_r_90 = hp_r.out]]

\* line 106
AdvanceStep(c) ==
    IF c.e.panicked THEN c ELSE [c EXCEPT !.e.rb_idx = (c.e.rb_idx + 1) % RB_LEN]

\* line 108: the engine after the call and the value returned
Returned(c) ==
    [e |-> c.e,
     out |-> <<FClamp(c.out_l, -Unit, Unit), FClamp(c.out_r, -Unit, Unit)>>]

\* a process that writes the feedback of lines 101-104 before it reads the
\* cancellation taps of lines 86-90
process_feedback_first(e, l, r, attenuation, amp_factors) ==
    Returned(AdvanceStep(OutStep(MainStep(TapStep(FeedbackStep(
        AChainStep(e, l, r, attenuation, amp_factors)))))))

\* CtcEngine::process: the statements in the order of the source
process(e, l, r, attenuation, amp_factors) ==
    Returned(AdvanceStep(FeedbackStep(OutStep(MainStep(TapStep(
        AChainStep(e, l, r, attenuation, amp_factors)))))))

\* --------------------------------------------------------------------- lib.rs
\* calc_speed_of_sound
calc_speed_of_sound(t_c) ==
    LET t_k == FAdd(Dec3(273150), t_c)
    IN  FSqrt(FDiv(FMul(FMul(Dec3(1403), Dec3(8314)), t_k), Dec3(29)))

\* calc_delay_frames: <<main_delays, ct_delays>>
calc_delay_frames(sample_rate, distances, speed_of_sound) ==
    LET k == FDiv(sample_rate, speed_of_sound)
        ls2le == FMul(distances[1], k)
        ls2re == FMul(distances[2], k)
        rs2le == FMul(distances[3], k)
        rs2re == FMul(distances[4], k)
        main_delays == IF FGt(ls2le, rs2re)
                       THEN <<0, FSub(ls2le, rs2re)>>
                       ELSE <<FSub(rs2re, ls2le), 0>>
    IN  <<main_delays,
          <<FMaxOf(Unit, FAbs(FSub(rs2le, ls2le))),
            FMaxOf(Unit, FAbs(FSub(ls2re, rs2re)))>>>>

\* the engine start_thru builds (lines 175-197) from the stream's sample
\* rate, the four path distances of calc_distance, the two shadow cutoffs
\* of calc_shadow_cutoff and the tuning of the command
BuildEngine(sample_rate, distances, temperature, shadow_cutoffs, highpass_cutoff, lowshelf_cutoff, lowshelf_gain) ==
    LET d == calc_delay_frames(sample_rate, distances,
                               calc_speed_of_sound(temperature))
    IN  CtcEngine_new(sample_rate, d[2], d[1], shadow_cutoffs,
                      highpass_cutoff, lowshelf_cutoff, lowshelf_gain)

\* ------------------------------------------------------- inputs of the model
SampleRates == {Whole(48000)}
\* the distances [ls2le, ls2re, rs2le, rs2re] of calc_distance, in metres:
\* scenario S1 of the specification; integer delays of 77 frames; a main
\* delay of 509.64 frames on the left beside a cross-talk delay of 77; a main
\* delay of 509.66 frames on the right; a cross-talk delay of 511.92 frames
\* beside one of exactly 1; a main delay of 869 frames
Geometries ==
    {<<Dec3(1020), Dec3(1077), Dec3(1077), Dec3(1020)>>,
     <<Dec3(750), Dec3(750), Dec3(1281), Dec3(1281)>>,
     <<Dec3(1250), Dec3(1500), Dec3(1780), Dec3(4758)>>,
     <<Dec3(4516), Dec3(1200), Dec3(1100), Dec3(1000)>>,
     <<Dec3(1000), Dec3(1000), Dec3(4531), Dec3(1000)>>,
     <<Dec3(1000), Dec3(9000), Dec3(1000), Dec3(7000)>>}
\* degrees Celsius; the command takes any f32
Temperatures == {Whole(20), Whole(-300)}
ShadowCutoffs == {<<Whole(5000), Whole(1000)>>}
HighpassCutoffs == {Whole(100)}
LowshelfCutoffs == {Whole(200)}
\* in units of 20 dB
LowshelfGains == {1}
AmpFactors == {<<Unit, Dec3(900), Dec3(800), Unit>>}
\* the input stream and the attenuation of a run
Runs ==
    {[stimulus |-> "silence", attenuation |-> Unit],
     [stimulus |-> "delta", attenuation |-> Unit],
     [stimulus |-> "square", attenuation |-> Unit],
     [stimulus |-> "square", attenuation |-> 0]}

\* the frame [l, r] the stream delivers to call number t (from 0)
Stimulus(st, t) ==
    CASE st = "silence" -> <<0, 0>>
      [] st = "delta" -> IF t = 0 THEN <<Unit, -Unit>> ELSE <<0, 0>>
      [] st = "square" -> IF (t \div 3) % 2 = 0 THEN <<Unit, Dec3(500)>>
                          ELSE <<-Unit, Dec3(-250)>>

\* ------------------------------------------ the reference engine of claim C10
\* One channel of an engine without the cancellation path: the A chain scaled
\* by the direct-path factor, the low shelf, the main ring and its read, the
\* clamp.  It is given one channel's input and nothing else.
RefChannel(chain, low_shelf, main_delay, k) ==
    [chain |-> chain, low_shelf |-> low_shelf, rb |-> ZeroRing, rb_idx |-> 0,
     main_delay |-> main_delay, k |-> k, out |-> 0]

RefProcess(ch, x) ==
    LET a == Fold(ch.chain, x, 1)
        ls == BQ_process(ch.low_shelf, FMul(a.out, ch.k))
        rb == [ch.rb EXCEPT ![ch.rb_idx] = ls.out]
        out == get_interpolated(rb, ch.rb_idx, ch.main_delay)
    IN  [ch EXCEPT !.chain = a.chain, !.low_shelf = ls.f, !.rb = rb,
                   !.rb_idx = (ch.rb_idx + 1) % RB_LEN,
                   !.out = FClamp(out, -Unit, Unit)]

\* ------------------------------------------------------------------- state
\* engine: the CtcEngine of one start_thru; returned: what its last process
\* call returned; stimulus, attenuation, amp_factors: the inputs of the run.
\* History: hist.x[k] is the value call k wrote into ring x; ref_l and ref_r
\* are the reference channels.
VARIABLES engine, returned, stimulus, attenuation, amp_factors, hist, ref_l, ref_r

\* bq: one BiquadFilter; bq_in, bq_y, bq_out: the input of its last process
\* call, the local output of that call and the value it returned; bq_calls:
\* the number of calls.
VARIABLES bq, bq_in, bq_y, bq_out, bq_calls

\* abort_signal: AppState.abort_signal; thread[t]: the t-th thread
\* set_audio_devices spawned, with everything its start_thru owns.
VARIABLES abort_signal, thread

engine_vars ==
    <<engine, returned, stimulus, attenuation, amp_factors, hist, ref_l, ref_r>>
bq_vars == <<bq, bq_in, bq_y, bq_out, bq_calls>>
host_vars == <<abort_signal, thread>>
vars == <<engine_vars, bq_vars, host_vars>>

\* ------------------------------------------------------------ BiquadFilter runs
MaxBiquadCalls == 3

BiquadFilters ==
    {BQ_low_pass(Whole(48000), Whole(5000)),
     BQ_high_pass(Whole(48000), Whole(100)),
     BQ_low_shelf(Whole(48000), Whole(200), 1)}

\* process takes any f64
BiquadInputs == {0, Unit, -Unit, FMax, -FMax, NaN, PInf, NInf}

BiquadInit ==
    /\ bq \in BiquadFilters
    /\ bq_in = 0
    /\ bq_y = 0
    /\ bq_out = 0
    /\ bq_calls = 0

BiquadProcess ==
    /\ bq_calls < MaxBiquadCalls
    /\ \E x \in BiquadInputs :
          LET r == BQ_process(bq, x)
          IN  /\ bq' = r.f
              /\ bq_in' = x
              /\ bq_y' = BQ_output(bq, x)
              /\ bq_out' = r.out
    /\ bq_calls' = bq_calls + 1
    /\ UNCHANGED <<engine_vars, host_vars>>

\* ------------------------------------------------------------------ engine runs
EngineInit ==
    /\ \E sr \in SampleRates, g \in Geometries, t \in Temperatures,
          sc \in ShadowCutoffs, hp \in HighpassCutoffs,
          lc \in LowshelfCutoffs, lg \in LowshelfGains :
            engine = BuildEngine(sr, g, t, sc, hp, lc, lg)
    /\ returned = <<0, 0>>
    /\ \E run \in Runs :
          /\ stimulus = run.stimulus
          /\ attenuation = run.attenuation
    /\ amp_factors \in AmpFactors
    /\ hist = [l_0 |-> <<>>, r_0 |-> <<>>, l_90 |-> <<>>, r_90 |-> <<>>]
    /\ ref_l = RefChannel(engine.filter_a_l, engine.low_shelf_l,
                          engine.main_delay_l, amp_factors[1])
    /\ ref_r = RefChannel(engine.filter_a_r, engine.low_shelf_r,
                          engine.main_delay_r, amp_factors[4])

\* one call of engine.process from the output callback (lib.rs line 205)
Process ==
    /\ engine.calls < MaxCalls
    /\ ~engine.panicked
    /\ LET in == Stimulus(stimulus, engine.calls)
           r == process(engine, in[1], in[2], attenuation, amp_factors)
       IN  /\ engine' = r.e
           /\ returned' = r.out
           /\ hist' = [l_0 |-> Append(hist.l_0, engine'.probe.wr_l_0),
                       r_0 |-> Append(hist.r_0, engine'.probe.wr_r_0),
                       l_90 |-> Append(hist.l_90, engine'.probe.wr_l_90),
                       r_90 |-> Append(hist.r_90, engine'.probe.wr_r_90)]
           /\ ref_l' = RefProcess(ref_l, in[1])
           /\ ref_r' = RefProcess(ref_r, in[2])
    /\ UNCHANGED <<stimulus, attenuation, amp_factors, bq_vars, host_vars>>

\* -------------------------------------------------------------- host threads
MaxThreads == 2          \* set_audio_devices calls in one run
LatencyFrames == 1       \* opt.latency * sample_rate / 1000
MaxFrames == 3           \* frames the input stream delivers to one thread
MaxBurst == 2            \* frames in one input callback
MaxProcess == 3          \* frames the output stream asks of one thread
Channels == 2            \* opt.config.channels of a stereo stream

Threads == 1..MaxThreads
latency_samples == LatencyFrames * Channels

\* a sample is <<f, ch>>: channel ch of input frame f; the frames of zeros
\* the ring is built from have f = 0
Silence == <<<<0, "L">>, <<0, "R">>>>

RECURSIVE Interleaved(_, _)
Interleaved(first, n) ==
    IF n = 0 THEN <<>>
    ELSE <<<<first, "L">>, <<first, "R">>>> \o Interleaved(first + 1, n - 1)

\* pc: where the thread spawned by set_audio_devices is ("none": not
\* spawned); rb: the occupied part of the SPSC ring; playing: the two streams
\* exist; in_data: what the running input callback has still to push;
\* frames_in: input frames delivered; out_pc: where the running output
\* callback is; sig_next: the frame ctc_sig holds for its next call (empty:
\* the signal has ended); l: the sample the consumer closure popped first;
\* cur: the frame handed to the map closure; calls: process calls of this
\* thread's engine; last: the frame of the last such call
Unborn ==
    [pc |-> "none", rb |-> <<>>, playing |-> FALSE, in_data |-> <<>>,
     frames_in |-> 0, out_pc |-> "idle", sig_next |-> <<>>, l |-> <<>>,
     cur |-> <<>>, calls |-> 0, last |-> <<>>]

HostInit ==
    /\ abort_signal = FALSE
    /\ thread = [t \in Threads |-> Unborn]

\* set_audio_devices (lines 90-142): clears the shared flag and spawns a thread
SetAudioDevices ==
    \E t \in Threads :
        /\ thread[t].pc = "none"
        /\ \A u \in Threads : u < t => thread[u].pc # "none"
        /\ abort_signal' = FALSE
        /\ thread' = [thread EXCEPT ![t].pc = "build"]
        /\ UNCHANGED <<engine_vars, bq_vars>>

\* abort_audio_routing (lines 145-148)
AbortAudioRouting ==
    /\ abort_signal' = TRUE
    /\ UNCHANGED <<thread, engine_vars, bq_vars>>

\* start_thru, lines 155-232: the ring, full of zeros; the engine; ctc_sig,
\* whose construction (signal::from_iter) takes the first frame from the
\* consumer closure; the two streams, playing
Build(t) ==
    /\ thread[t].pc = "build"
    /\ LET full == Interleaved(0, LatencyFrames)
       IN  thread' = [thread EXCEPT
                        ![t].pc = "check",
                        ![t].playing = TRUE,
                        ![t].rb = IF Len(full) < 2 THEN full
                                  ELSE SubSeq(full, 3, Len(full)),
                        ![t].sig_next = IF Len(full) < 2 THEN <<>>
                                        ELSE <<<<full[1], full[2]>>>>]
    /\ UNCHANGED <<abort_signal, engine_vars, bq_vars>>

\* line 235: the host loop reads the flag
Check(t) ==
    /\ thread[t].pc = "check"
    /\ thread' = [thread EXCEPT
                    ![t].pc = IF abort_signal THEN "drop" ELSE "sleep"]
    /\ UNCHANGED <<abort_signal, engine_vars, bq_vars>>

\* line 236
Sleep(t) ==
    /\ thread[t].pc = "sleep"
    /\ thread' = [thread EXCEPT ![t].pc = "check"]
    /\ UNCHANGED <<abort_signal, engine_vars, bq_vars>>

\* lines 239-243: dropping a stream waits for its running callback
Drop(t) ==
    /\ thread[t].pc = "drop"
    /\ thread[t].in_data = <<>>
    /\ thread[t].out_pc = "idle"
    /\ thread' = [thread EXCEPT ![t].pc = "emit", ![t].playing = FALSE]
    /\ UNCHANGED <<abort_signal, engine_vars, bq_vars>>

\* line 138: the "finished" event
Emit(t) ==
    /\ thread[t].pc = "emit"
    /\ thread' = [thread EXCEPT ![t].pc = "done"]
    /\ UNCHANGED <<abort_signal, engine_vars, bq_vars>>

\* the input stream calls input_fn (lines 165-173) with n frames
InputCallback(t) ==
    /\ thread[t].playing
    /\ thread[t].in_data = <<>>
    /\ \E n \in 1..MaxBurst :
          /\ thread[t].frames_in + n <= MaxFrames
          /\ thread' = [thread EXCEPT
                          ![t].in_data = Interleaved(thread[t].frames_in + 1, n),
                          ![t].frames_in = @ + n]
    /\ UNCHANGED <<abort_signal, engine_vars, bq_vars>>

\* one turn of the loop of input_fn (lines 166-172)
InputPush(t) ==
    /\ thread[t].in_data # <<>>
    /\ IF Len(thread[t].rb) < latency_samples
       THEN /\ thread' = [thread EXCEPT
                            ![t].rb = Append(@, Head(thread[t].in_data)),
                            ![t].in_data = Tail(@)]
            /\ UNCHANGED abort_signal
       ELSE /\ abort_signal' = TRUE
            /\ thread' = [thread EXCEPT ![t].in_data = <<>>]
    /\ UNCHANGED <<engine_vars, bq_vars>>

\* the output stream calls output_fn (lines 211-221) for one frame
OutputCallback(t) ==
    /\ thread[t].playing
    /\ thread[t].out_pc = "idle"
    /\ thread[t].calls < MaxProcess
    /\ thread' = [thread EXCEPT ![t].out_pc = "next"]
    /\ UNCHANGED <<abort_signal, engine_vars, bq_vars>>

\* line 213, ctc_sig.next(): the signal hands out the frame it holds and
\* asks the consumer closure (lines 199-203) for the next one; line 200.
\* Once the closure has returned None the signal has ended and hands out
\* silence.
OutNext(t) ==
    /\ thread[t].out_pc = "next"
    /\ thread' = [thread EXCEPT
                    ![t].cur = IF thread[t].sig_next = <<>> THEN Silence
                               ELSE thread[t].sig_next[1],
                    ![t].sig_next = <<>>,
                    ![t].out_pc = IF thread[t].sig_next = <<>>
                                     \/ Len(thread[t].rb) < 2
                                  THEN "map" ELSE "pop_l"]
    /\ UNCHANGED <<abort_signal, engine_vars, bq_vars>>

\* line 201
OutPopL(t) ==
    /\ thread[t].out_pc = "pop_l"
    /\ thread' = [thread EXCEPT
                    ![t].l = <<Head(thread[t].rb)>>,
                    ![t].rb = Tail(@),
                    ![t].out_pc = "pop_r"]
    /\ UNCHANGED <<abort_signal, engine_vars, bq_vars>>

\* lines 202-203
OutPopR(t) ==
    /\ thread[t].out_pc = "pop_r"
    /\ thread' = [thread EXCEPT
                    ![t].sig_next = <<<<thread[t].l[1], Head(thread[t].rb)>>>>,
                    ![t].l = <<>>,
                    ![t].rb = Tail(@),
                    ![t].out_pc = "map"]
    /\ UNCHANGED <<abort_signal, engine_vars, bq_vars>>

\* lines 204-209 and 214-219: the map closure calls engine.process
OutMap(t) ==
    /\ thread[t].out_pc = "map"
    /\ thread' = [thread EXCEPT
                    ![t].calls = @ + 1,
                    ![t].last = thread[t].cur,
                    ![t].cur = <<>>,
                    ![t].out_pc = "idle"]
    /\ UNCHANGED <<abort_signal, engine_vars, bq_vars>>

\* ------------------------------------------------------------ specifications
EngineIdle ==
    /\ engine = <<>> /\ returned = <<>> /\ stimulus = "" /\ attenuation = 0
    /\ amp_factors = <<>> /\ hist = <<>> /\ ref_l = <<>> /\ ref_r = <<>>

BiquadIdle ==
    /\ bq = <<>> /\ bq_in = 0 /\ bq_y = 0 /\ bq_out = 0 /\ bq_calls = 0

\* the engine alone, driven frame by frame
Init == EngineInit /\ BiquadIdle /\ HostInit
Next == Process
Spec == Init /\ [][Next]_vars

\* one biquad alone
BiquadSpecInit == EngineIdle /\ BiquadInit /\ HostInit
BiquadNext == BiquadProcess
BiquadSpec == BiquadSpecInit /\ [][BiquadNext]_vars

\* the commands, the threads they spawn and the callbacks of their streams
HostSpecInit == EngineIdle /\ BiquadIdle /\ HostInit
ThreadStep(t) == Build(t) \/ Check(t) \/ Sleep(t) \/ Drop(t) \/ Emit(t)
CallbackStep(t) ==
    InputPush(t) \/ OutNext(t) \/ OutPopL(t) \/ OutPopR(t) \/ OutMap(t)
HostNext ==
    \/ SetAudioDevices
    \/ AbortAudioRouting
    \/ \E t \in Threads :
          \/ Build(t) \/ Check(t) \/ Sleep(t) \/ Drop(t) \/ Emit(t)
          \/ InputCallback(t) \/ InputPush(t)
          \/ OutputCallback(t) \/ OutNext(t) \/ OutPopL(t) \/ OutPopR(t)
          \/ OutMap(t)
HostSpec == HostSpecInit /\ [][HostNext]_vars

\* a spawned thread keeps running, and a callback that was called returns;
\* nothing obliges the user to send a command or a device to call back
HostFairness ==
    \A t \in Threads : WF_vars(ThreadStep(t)) /\ WF_vars(CallbackStep(t))
FairHostSpec == HostSpec /\ HostFairness

\* ------------------------------------------------------------ claims on Spec
PrevIdx == (engine.rb_idx + RB_LEN - 1) % RB_LEN

\* C3: in every process call the cancellation taps read rb_l_90 and rb_r_90
\* before the call writes its feedback into them: every cell the taps of
\* call t read was last written by a call earlier than t.
TapReadsPrecedeFeedbackWrite ==
    engine.calls > 0 => engine.tap_stamp < engine.calls

\* the left tap of the last call read the very cell the call then wrote, and
\* found in it what an earlier call had written
TapReadTheCellWrittenNext ==
    /\ engine.calls > RB_LEN
    /\ InterpolationPoint(PrevIdx, engine.ct_delay_l).idx_a = PrevIdx
    /\ engine.stamp_l_90[PrevIdx] = engine.calls
    /\ engine.tap_stamp = engine.calls - 1
    /\ engine.probe.ct_l_90_delayed # 0

\* C4: every engine that exists has its four delays in [0, 512): a
\* configuration outside it is reported at construction and yields no engine.
DelaysOf(e) == {e.main_delay_l, e.main_delay_r, e.ct_delay_l, e.ct_delay_r}

EveryEngineHasValidDelays ==
    \A d \in DelaysOf(engine) : IsFinite(d) /\ 0 <= d /\ d < Whole(RB_LEN)

\* C5: with |l|, |r| <= 1, attenuation in [0, 1] and amp_factors in [0, 1]^4
\* both returned samples lie within [-1, 1].
ReturnedWithinUnit ==
    \A i \in 1..2 :
        /\ IsFinite(returned[i])
        /\ -Unit <= returned[i]
        /\ returned[i] <= Unit

\* C6: process is total: no checked index panics, rb_idx stays in [0, 512),
\* and for every configured delay the two indices of get_interpolated are in
\* [0, 512), so that no unchecked access leaves its ring.
ProcessIsTotal ==
    /\ ~engine.panicked
    /\ ~engine.ub
    /\ engine.rb_idx \in RingIdx
    /\ \A d \in DelaysOf(engine) :
           /\ InterpolationPoint(engine.rb_idx, d).idx_a \in RingIdx
           /\ InterpolationPoint(engine.rb_idx, d).idx_b \in RingIdx

\* rb_idx has wrapped around, and a delay reaches back across the wrap
IndexWrappedBelowDelay ==
    /\ engine.calls = RB_LEN + 2
    /\ engine.rb_idx = 2
    /\ IsFinite(engine.main_delay_l)
    /\ engine.main_delay_l > Whole(2)
    /\ returned[1] # 0

\* C7: a read in call t at delay d + f (d whole, 0 <= f < 1, d + f <= 510)
\* returns (1 - f) * x[t - d] + f * x[t - d - 1], x[k] being what call k
\* wrote (0 before the first call): for the main rings at any d >= 0, for the
\* 90-degree rings at d >= 1.  The product by the weight is rounded once, so
\* the two sides differ by at most half a unit of the number model, and for
\* f = 0 they are the same number.
HistAt(h, k) == IF k >= 1 /\ k <= Len(h) THEN h[k] ELSE 0

RoundTrip(h, delay, read, least) ==
    (/\ engine.calls > 0
     /\ IsFinite(delay)
     /\ least <= delay
     /\ delay <= Whole(RB_LEN - 2))
    => LET d == delay \div Unit
           f == delay % Unit
           t == engine.calls
           exact == (Unit - f) * HistAt(h, t - d) + f * HistAt(h, t - d - 1)
       IN  /\ 2 * Abs(read * Unit - exact) <= Unit
           /\ f = 0 => read = HistAt(h, t - d)

DelayLineRoundTrip ==
    /\ RoundTrip(hist.l_0, engine.main_delay_l, engine.probe.out_l, 0)
    /\ RoundTrip(hist.r_0, engine.main_delay_r, engine.probe.out_r, 0)
    /\ RoundTrip(hist.l_90, engine.ct_delay_l,
                 engine.probe.ct_l_90_delayed, Unit)
    /\ RoundTrip(hist.r_90, engine.ct_delay_r,
                 engine.probe.ct_r_90_delayed, Unit)

\* in one call a main-ring read at a fractional delay above 509 frames
\* returns a value between two different samples, and a 90-degree-ring read
\* at a whole delay above 1 returns a sample that is not zero
LongDelayReturnsSample ==
    /\ engine.main_delay_l > Whole(509)
    /\ engine.main_delay_l <= Whole(510)
    /\ engine.main_delay_l % Unit # 0
    /\ engine.probe.out_l # 0
    /\ engine.probe.out_l # HistAt(hist.l_0, engine.calls - 509)
    /\ engine.probe.out_l # HistAt(hist.l_0, engine.calls - 510)
    /\ engine.ct_delay_l > Unit
    /\ engine.ct_delay_l % Unit = 0
    /\ engine.ct_delay_l < Whole(RB_LEN)
    /\ engine.probe.ct_l_90_delayed # 0

\* C8: as long as every input was [0, 0], all filter states and all four
\* rings are zero and every output is [0, 0].
FilterChainAtRest(chain) ==
    \A i \in 1..Len(chain) : chain[i].prev_in = 0 /\ chain[i].prev_out = 0

BiquadAtRest(f) == f.z1 = 0 /\ f.z2 = 0

SilenceInSilenceOut ==
    stimulus = "silence" =>
        /\ returned = <<0, 0>>
        /\ FilterChainAtRest(engine.filter_a_l)
        /\ FilterChainAtRest(engine.filter_a_r)
        /\ FilterChainAtRest(engine.filter_b_l)
        /\ FilterChainAtRest(engine.filter_b_r)
        /\ BiquadAtRest(engine.low_pass_l) /\ BiquadAtRest(engine.low_pass_r)
        /\ BiquadAtRest(engine.high_pass_l) /\ BiquadAtRest(engine.high_pass_r)
        /\ BiquadAtRest(engine.low_shelf_l) /\ BiquadAtRest(engine.low_shelf_r)
        /\ engine.rb_l_0 = ZeroRing /\ engine.rb_r_0 = ZeroRing
        /\ engine.rb_l_90 = ZeroRing /\ engine.rb_r_90 = ZeroRing

\* C10: with attenuation 0 in every call the engine returns what the
\* reference channels return, each of which is given its own channel's input
\* only.
AttenuationZeroIsReference ==
    attenuation = 0 => returned = <<ref_l.out, ref_r.out>>

\* the cancellation taps carry signal, and the output is not silent
CancellationSignalIgnored ==
    /\ attenuation = 0
    /\ engine.calls > RB_LEN
    /\ engine.probe.ct_l_90_delayed # 0
    /\ engine.probe.ct_r_90_delayed # 0
    /\ engine.low_pass_l.z1 # 0
    /\ engine.low_pass_r.z1 # 0
    /\ returned[1] # 0
    /\ returned[2] # 0
    /\ returned[1] # returned[2]

\* ------------------------------------------------------ claims on BiquadSpec
\* C9: whenever the output y = b0 * x + z1 of a process call is not finite,
\* the call leaves z1 = z2 = 0 and returns 0; process never returns a value
\* that is not finite.
BiquadResetsOnNonFinite ==
    /\ IsFinite(bq_out)
    /\ ~IsFinite(bq_y) => bq.z1 = 0 /\ bq.z2 = 0 /\ bq_out = 0

\* a call whose input was finite and whose output was not: the state the
\* earlier calls left was not finite
ResetFromNonFiniteState ==
    /\ bq_calls = MaxBiquadCalls
    /\ bq_in = Unit
    /\ IsNaN(bq_y)

\* ----------------------------------------- claims on HostSpec, FairHostSpec
HostLoopRunning(t) == thread[t].pc \in {"check", "sleep"}

\* C1: once the abort signal is true, every running host loop eventually
\* observes it, drops its streams and returns, and the finished event is
\* emitted, whatever commands follow.
AbortEndsEveryHostLoop ==
    \A t \in Threads :
        (abort_signal /\ HostLoopRunning(t)) ~> (thread[t].pc = "done")

\* C2: once a later set_audio_devices has put a new engine in service, the
\* engine created before it is never again invoked through process.
InService(t) == thread[t].pc \notin {"none", "build"}

ReplacedEngineNeverInvoked ==
    [][\A t \in Threads :
           (\E u \in Threads : u > t /\ InService(u))
               => thread'[t].calls = thread[t].calls]_vars

\* a frame [l, r] is aligned when l is the left sample and r the right sample
\* of one and the same input frame (the frames of zeros the ring is built
\* from count as frame 0)
Aligned(frame) ==
    /\ frame[1][2] = "L"
    /\ frame[2][2] = "R"
    /\ frame[1][1] = frame[2][1]

\* C11: under every interleaving of the input and output callbacks, a failed
\* try_push in the middle of a frame included, each pair the consumer closure
\* pops (the frame ctc_sig holds), and so each frame [l, r] handed to
\* engine.process, is the left and the right sample of one input frame.
PoppedPairsAreFrames ==
    \A t \in Threads :
        /\ thread[t].sig_next # <<>> => Aligned(thread[t].sig_next[1])
        /\ thread[t].cur # <<>> => Aligned(thread[t].cur)
        /\ thread[t].last # <<>> => Aligned(thread[t].last)

=============================================================================
